---- MODULE Spec2Model ----
(***************************************************************************)
(* Model of python/mask_git/networks.py: the residual block, the encoder   *)
(* and decoder towers, the learned-codebook vector quantizer and the       *)
(* VQVAE entry points that go through code indices.                        *)
(*                                                                         *)
(* Numbers.  Tensor elements are floating-point numbers.  A value is       *)
(* modelled as an integer, and a dtype as a number of significand bits:    *)
(* v is representable when |v| = m * 2^e with m < 2^bits.  Every           *)
(* arithmetic operation rounds its exact result to the nearest             *)
(* representable value, ties to the even significand, as IEEE 754 does.    *)
(* Infinities and NaN are outside the model: all inputs are finite.        *)
(***************************************************************************)
EXTENDS Integers, Sequences, FiniteSets, TLC

VARIABLES
    train,        \* VectorQuantizer.train / VQVAE.train
    dtype,        \* VectorQuantizer.dtype
    codebook,     \* params["codebook"], stored in float32
    vq_pc,        \* "ready" | "called" | "indexed" | "decoded"
    ret,          \* what VectorQuantizer.__call__ returned
    ids,          \* the index array handed to decode_from_indices
    features,     \* decode_ids(ids) inside decode_from_indices
    reconstructed, \* the decoder's output in decode_from_indices
    rb_pc,        \* ResBlock: "ready" | "done"
    rb_filters,   \* ResBlock.filters
    rb_shortcut,  \* ResBlock.use_conv_shortcut
    rb_x,         \* the tensor ResBlock.__call__ is given
    rb_out,       \* the tensor ResBlock.__call__ returns
    net_pc,       \* position inside Encoder.__call__ / Decoder.__call__
    net_i,        \* the stage index i of the running loop
    net_j,        \* residual blocks already applied in the running inner loop
    net_filters,  \* the local variable filters
    net_image,    \* shape of the image given to VQVAE.__call__
    net_shape,    \* shape of the local variable x
    net_log       \* the resizing steps taken so far, in order

vq_vars == <<train, dtype, codebook, vq_pc, ret, ids, features, reconstructed>>
rb_vars == <<rb_pc, rb_filters, rb_shortcut, rb_x, rb_out>>
net_vars == <<net_pc, net_i, net_j, net_filters, net_image, net_shape, net_log>>
vars == <<vq_vars, rb_vars, net_vars>>

-----------------------------------------------------------------------------
(* Bounds *)

\* codebook entries (the program's codebook_size is 1024)
codebook_size == 2
\* channels of the feature grid (the program's embedding_dim is 10)
EmbDim == 1
\* largest number of spatial positions batch*height*width of a feature grid
MaxPos == 1
\* significand bits standing for float32 (24 in IEEE 754)
F32Bits == 3
\* significand bits standing for bfloat16 (8)
BF16Bits == 2

\* largest batch size of an image or of a residual block's input
MaxBatch == 2
\* largest height and width of a residual block's input
MaxSide == 2
\* largest channel count and filters of a residual block on its own
MaxChannels == 3
\* largest image height and width, in units of 16 pixels
MaxTiles == 2

\* element values the encoder output is drawn from (before the cast to dtype)
FeatVals == {1, 12}
\* element values the float32 codebook parameter is drawn from
CodeVals == {1, 10}
\* values the external entropy estimator may return, in loss units
EntropyVals == {-1, 2}

-----------------------------------------------------------------------------
(* Floating point *)

RECURSIVE Pow2(_)
Pow2(n) == IF n <= 0 THEN 1 ELSE 2 * Pow2(n - 1)

RECURSIVE BitLen(_)
BitLen(a) == IF a = 0 THEN 0 ELSE 1 + BitLen(a \div 2)

\* round a >= 0 to `bits` significand bits, ties to even
RoundMag(a, bits) ==
    IF BitLen(a) <= bits THEN a
    ELSE LET e    == BitLen(a) - bits
             q    == a \div Pow2(e)
             r    == a % Pow2(e)
             half == Pow2(e - 1)
             up   == r > half \/ (r = half /\ q % 2 = 1)
         IN  (IF up THEN q + 1 ELSE q) * Pow2(e)

RoundTo(v, bits) == IF v < 0 THEN -RoundMag(-v, bits) ELSE RoundMag(v, bits)

DTypes == {"float32", "bfloat16"}

MantBits(dt) == IF dt = "float32" THEN F32Bits ELSE BF16Bits

Representable(v, dt) == RoundTo(v, MantBits(dt)) = v

\* jnp.asarray(value, dtype=dt)
AsArray(v, dt) == RoundTo(v, MantBits(dt))

FAdd(a, b, dt) == RoundTo(a + b, MantBits(dt))
FSub(a, b, dt) == RoundTo(a - b, MantBits(dt))
FMul(a, b, dt) == RoundTo(a * b, MantBits(dt))

-----------------------------------------------------------------------------
(* Tensors: [shape |-> <<d1, ..., dn>>, data |-> row-major rows over the last axis] *)

RECURSIVE Prod(_)
Prod(s) == IF s = <<>> THEN 1 ELSE Head(s) * Prod(Tail(s))

Codes == 0 .. codebook_size - 1
Chans == 1 .. EmbDim

\* x.shape[:-1]
Lead(shape) == SubSeq(shape, 1, Len(shape) - 1)

LeadShapes ==
    {s \in (1 .. MaxPos) \X (1 .. MaxPos) \X (1 .. MaxPos) : Prod(s) <= MaxPos}

\* the encoder's output as the quantizer sees it, in dtype dt
FeatureGrids(dt) ==
    UNION {[shape : {s \o <<EmbDim>>},
            data  : [1 .. Prod(s) -> [Chans -> {AsArray(v, dt) : v \in FeatVals}]]]
           : s \in LeadShapes}

IndexArrays ==
    UNION {[shape : {s}, data : [1 .. Prod(s) -> Codes]] : s \in LeadShapes}

Codebooks == [Codes -> [Chans -> CodeVals]]

-----------------------------------------------------------------------------
(* VectorQuantizer *)

\* codebook = jnp.asarray(codebook, dtype=self.dtype)
CastCodebook(cb, dt) == [k \in Codes |-> [d \in Chans |-> AsArray(cb[k][d], dt)]]

RECURSIVE SumSq(_, _, _)
SumSq(a, b, d) ==
    IF d = 0 THEN 0 ELSE SumSq(a, b, d - 1) + (a[d] - b[d]) * (a[d] - b[d])

\* losses.squared_euclidean_distance, one feature vector against one entry
squared_euclidean_distance(a, b) == SumSq(a, b, EmbDim)

\* distances, reshaped to x.shape[:-1] + (codebook_size,)
Distances(x, cb) ==
    [shape |-> Lead(x.shape) \o <<codebook_size>>,
     data  |-> [p \in DOMAIN x.data |->
                  [k \in Codes |-> squared_euclidean_distance(x.data[p], cb[k])]]]

RECURSIVE ArgMinFrom(_, _, _)
ArgMinFrom(row, k, best) ==
    IF k > codebook_size - 1 THEN best
    ELSE ArgMinFrom(row, k + 1, IF row[k] < row[best] THEN k ELSE best)

\* faulty variant: a 1-based index
ArgMin_OneBased(row) == ArgMinFrom(row, 1, 0) + 1

RECURSIVE ArgMinLastFrom(_, _, _)
ArgMinLastFrom(row, k, best) ==
    IF k > codebook_size - 1 THEN best
    ELSE ArgMinLastFrom(row, k + 1, IF row[k] <= row[best] THEN k ELSE best)

\* faulty variant: the last index holding the minimum
ArgMin_Last(row) == ArgMinLastFrom(row, 1, 0)

\* jnp.argmin along the last axis: the first index holding the minimum
ArgMin(row) == ArgMinFrom(row, 1, 0)

\* faulty variant: the 1 lands one code too far
OneHot_Shifted(i, dt) == [k \in Codes |-> AsArray(IF k = i + 1 THEN 1 ELSE 0, dt)]

\* jax.nn.one_hot(i, codebook_size, dtype)
OneHot(i, dt) == [k \in Codes |-> AsArray(IF k = i THEN 1 ELSE 0, dt)]

EncodingIndices(distances) ==
    [shape |-> Lead(distances.shape),
     data  |-> [p \in DOMAIN distances.data |-> ArgMin(distances.data[p])]]

Encodings(indices, dt) ==
    [shape |-> indices.shape \o <<codebook_size>>,
     data  |-> [p \in DOMAIN indices.data |-> OneHot(indices.data[p], dt)]]

RECURSIVE DotAcc(_, _, _, _, _)
DotAcc(z, cb, d, k, dt) ==
    IF k < 0 THEN 0
    ELSE FAdd(DotAcc(z, cb, d, k - 1, dt), FMul(z[k], cb[k][d], dt), dt)

\* VectorQuantizer.quantize: jnp.dot(z, asarray(codebook, dtype))
quantize(z, cb, dt) ==
    LET c == CastCodebook(cb, dt)
    IN  [shape |-> Lead(z.shape) \o <<EmbDim>>,
         data  |-> [p \in DOMAIN z.data |->
                      [d \in Chans |-> DotAcc(z.data[p], c, d, codebook_size - 1, dt)]]]

\* VectorQuantizer.get_codebook
get_codebook(cb, dt) == CastCodebook(cb, dt)

\* VectorQuantizer.decode_ids: jnp.take(codebook, ids, axis=0), the stored parameter
decode_ids(i, cb) ==
    [shape |-> i.shape \o <<EmbDim>>,
     data  |-> [p \in DOMAIN i.data |-> cb[i.data[p]]]]

\* faulty variant: the rewrite returns the raw features
StraightThrough_Raw(x, q, dt) == x

\* x + jax.lax.stop_gradient(quantized - x), elementwise
StraightThrough(x, q, dt) ==
    [shape |-> x.shape,
     data  |-> [p \in DOMAIN x.data |->
                  [d \in Chans |-> FAdd(x.data[p][d],
                                        FSub(q.data[p][d], x.data[p][d], dt), dt)]]]

\* faulty variant: the error is not squared
SqErr_NoSquare(q, x, dt) == FSub(q, x, dt)

\* one element of (quantized - x) ** 2
SqErr(q, x, dt) == FSub(q, x, dt) * FSub(q, x, dt)

RECURSIVE SumChan(_, _, _, _)
SumChan(q, x, d, dt) ==
    IF d = 0 THEN 0 ELSE SumChan(q, x, d - 1, dt) + SqErr(q[d], x[d], dt)

RECURSIVE SumPos(_, _, _, _)
SumPos(q, x, p, dt) ==
    IF p = 0 THEN 0
    ELSE SumPos(q, x, p - 1, dt) + SumChan(q.data[p], x.data[p], EmbDim, dt)

\* 1 / commitment_cost
commitment_cost_inv == 4

(* The losses are rationals over the common denominator                     *)
(* commitment_cost_inv * (number of elements of x); a loss is its numerator. *)
ELatentLoss(q, x, dt) == SumPos(q, x, Len(x.data), dt)
QLatentLoss(q, x, dt) == commitment_cost_inv * SumPos(q, x, Len(x.data), dt)

\* loss = e_latent_loss + q_latent_loss + entropy_loss
TotalLoss(e, q, ent) == e + q + ent

LossDict(quantized, x, dt, ent) ==
    LET e == ELatentLoss(quantized, x, dt)
        q == QLatentLoss(quantized, x, dt)
    IN  [quantizer_loss |-> TotalLoss(e, q, ent),
         e_latent_loss  |-> e,
         q_latent_loss  |-> q,
         entropy_loss   |-> ent]

EmptyDict == [k \in {} |-> 0]

\* faulty variant: the losses are computed in inference mode too
Losses_Always(tr, quantized, x, dt, ent) == LossDict(quantized, x, dt, ent)

\* result_dict = dict(); if self.train: ... result_dict = dict(quantizer_loss=...)
Losses(tr, quantized, x, dt, ent) ==
    IF tr THEN LossDict(quantized, x, dt, ent) ELSE EmptyDict

\* faulty variant: the raw features are left out
ResultEntries_NoRaw(encodings, indices, x) ==
    [encodings |-> encodings, encoding_indices |-> indices]

\* the entries result_dict.update({...}) adds
ResultEntries(encodings, indices, x) ==
    [encodings |-> encodings, encoding_indices |-> indices, raw |-> x]

\* result_dict.update(new)
Update(old, new) == new @@ old

(* VectorQuantizer.__call__(x); ent is what losses.entropy_loss(-distances) *)
(* times entropy_loss_ratio comes to.                                       *)
VQCall(x, cb, tr, dt, ent) ==
    LET c         == CastCodebook(cb, dt)
        distances == Distances(x, c)
        indices   == EncodingIndices(distances)
        encodings == Encodings(indices, dt)
        quantized == quantize(encodings, cb, dt)
        losses    == Losses(tr, quantized, x, dt, ent)
        returned  == IF tr THEN StraightThrough(x, quantized, dt) ELSE quantized
    IN  [quantized   |-> returned,
         result_dict |-> Update(losses, ResultEntries(encodings, indices, x))]

-----------------------------------------------------------------------------
(* VQVAE entry points, with the learned-codebook quantizer behind them.    *)
(* The encoder's output for the image is the feature grid x.               *)

\* VQVAE.decode: the decoder tower, a function of its input
decode(x) == [decoder_of |-> x]

\* the isinstance(inputs, dict) dispatch of decode_from_indices
IdsOf(inputs) ==
    IF "encoding_indices" \in DOMAIN inputs THEN inputs.encoding_indices ELSE inputs

NoTensor == [shape |-> <<>>, data |-> <<>>]
NoReturn == [quantized |-> NoTensor, result_dict |-> EmptyDict]

VQStart ==
    /\ train \in BOOLEAN
    /\ dtype \in DTypes
    /\ codebook \in Codebooks
    /\ vq_pc = "ready"
    /\ ret = NoReturn
    /\ ids = NoTensor
    /\ features = NoTensor
    /\ reconstructed = decode(NoTensor)

\* VQVAE.encode(image)
Encode ==
    /\ vq_pc = "ready"
    /\ \E x \in FeatureGrids(dtype), ent \in EntropyVals :
          ret' = VQCall(x, codebook, train, dtype, IF train THEN ent ELSE 0)
    /\ vq_pc' = "called"
    /\ UNCHANGED <<train, dtype, codebook, ids, features, reconstructed>>
    /\ UNCHANGED <<rb_vars, net_vars>>

\* VQVAE.encode_to_indices(image), on the image encode was given
EncodeToIndices ==
    /\ vq_pc = "called"
    /\ ids' = VQCall(ret.result_dict.raw, codebook, train, dtype, 0)
                 .result_dict.encoding_indices
    /\ vq_pc' = "indexed"
    /\ UNCHANGED <<train, dtype, codebook, ret, features, reconstructed>>
    /\ UNCHANGED <<rb_vars, net_vars>>

\* VQVAE.decode_from_indices(inputs)
DecodeFromIndices ==
    /\ \/ /\ vq_pc = "indexed"
          /\ \E asDict \in BOOLEAN :
                ids' = IdsOf(IF asDict THEN [encoding_indices |-> ids] ELSE ids)
       \/ /\ vq_pc = "ready"
          /\ \E i \in IndexArrays, asDict \in BOOLEAN :
                ids' = IdsOf(IF asDict THEN [encoding_indices |-> i] ELSE i)
    /\ features' = decode_ids(ids', codebook)
    /\ reconstructed' = decode(features')
    /\ vq_pc' = "decoded"
    /\ UNCHANGED <<train, dtype, codebook, ret>>
    /\ UNCHANGED <<rb_vars, net_vars>>

VQNext == Encode \/ EncodeToIndices \/ DecodeFromIndices

\* the quantizer is not in use
VQIdle ==
    /\ train = FALSE
    /\ dtype = "float32"
    /\ codebook = [k \in Codes |-> [d \in Chans |-> 1]]
    /\ vq_pc = "idle"
    /\ ret = NoReturn
    /\ ids = NoTensor
    /\ features = NoTensor
    /\ reconstructed = decode(NoTensor)

-----------------------------------------------------------------------------
(* Layers.  A tensor of the towers is [shape |-> <<B, H, W, C>>, expr |-> e]: *)
(* its shape and the expression that computed it, a tree of nodes           *)
(* [op, k, f, args] (operation, kernel size, output channels, operands).    *)

Node(op, k, f, args) == [op |-> op, k |-> k, f |-> f, args |-> args]

\* a tensor that is given, not computed
Input(shape) == [shape |-> shape, expr |-> Node("input", 0, shape[4], <<>>)]

\* norm_fn()(x)
norm_fn(x) == [shape |-> x.shape, expr |-> Node("norm", 0, x.shape[4], <<x.expr>>)]

\* activation_fn(x)
activation_fn(x) == [shape |-> x.shape, expr |-> Node("act", 0, x.shape[4], <<x.expr>>)]

\* conv_fn(nfeatures, kernel_size=(k, k))(x): nn.Conv, stride 1, padding SAME
conv_fn(nfeatures, k, x) ==
    [shape |-> <<x.shape[1], x.shape[2], x.shape[3], nfeatures>>,
     expr  |-> Node("conv", k, nfeatures, <<x.expr>>)]

\* a + b of two tensors of one shape
Add(a, b) == [shape |-> a.shape, expr |-> Node("add", 0, a.shape[4], <<a.expr, b.expr>>)]

\* the shape after layers.dsample(x)
dsample(shape) == <<shape[1], shape[2] \div 2, shape[3] \div 2, shape[4]>>

\* the shape after layers.upsample(x, factor)
upsample(shape, factor) == <<shape[1], shape[2] * factor, shape[3] * factor, shape[4]>>

\* the transformed branch of ResBlock.__call__
Branch(nfilters, x) ==
    conv_fn(nfilters, 3, activation_fn(norm_fn(
        conv_fn(nfilters, 3, activation_fn(norm_fn(x))))))

\* faulty variant: the projection is taken of the block's input
Shortcut_OfInput(nfilters, use_conv_shortcut, residual, x) ==
    IF residual.shape[4] # nfilters
    THEN IF use_conv_shortcut THEN conv_fn(nfilters, 3, residual)
                              ELSE conv_fn(nfilters, 1, residual)
    ELSE residual

\* the tensor added to the branch x: residual is the block's input
Shortcut(nfilters, use_conv_shortcut, residual, x) ==
    IF residual.shape[4] # nfilters
    THEN IF use_conv_shortcut THEN conv_fn(nfilters, 3, x)
                              ELSE conv_fn(nfilters, 1, x)
    ELSE residual

\* ResBlock(filters, use_conv_shortcut=...)(x)
ResBlock(nfilters, use_conv_shortcut, x0) ==
    LET x == Branch(nfilters, x0)
    IN  Add(x, Shortcut(nfilters, use_conv_shortcut, x0, x))

ImageShapes4(c) ==
    {<<b, h, w, c>> : b \in 1 .. MaxBatch, h \in 1 .. MaxSide, w \in 1 .. MaxSide}

RBInit ==
    /\ rb_pc = "ready"
    /\ rb_filters \in 1 .. MaxChannels
    /\ rb_shortcut \in BOOLEAN
    /\ rb_x \in {Input(sh) : sh \in UNION {ImageShapes4(c) : c \in 1 .. MaxChannels}}
    /\ rb_out = Input(<<0, 0, 0, 0>>)

\* no residual block is being applied on its own
RBIdle ==
    /\ rb_pc = "idle"
    /\ rb_filters = 0
    /\ rb_shortcut = FALSE
    /\ rb_x = Input(<<0, 0, 0, 0>>)
    /\ rb_out = Input(<<0, 0, 0, 0>>)

\* ResBlock.__call__(x)
ApplyResBlock ==
    /\ rb_pc = "ready"
    /\ rb_out' = ResBlock(rb_filters, rb_shortcut, rb_x)
    /\ rb_pc' = "done"
    /\ UNCHANGED <<rb_filters, rb_shortcut, rb_x>>
    /\ UNCHANGED <<vq_vars, net_vars>>

RBNext == ApplyResBlock

-----------------------------------------------------------------------------
(* Encoder and Decoder, one action per statement of their __call__, run as  *)
(* VQVAE.__call__ runs them: encoder, quantizer, decoder.  Only the shape   *)
(* of the local x is followed.                                              *)

\* self.filters
filters == 128
\* self.num_res_blocks
num_res_blocks == 2
\* self.channel_multipliers
channel_multipliers == <<1, 1, 2, 2, 4>>
\* self.embedding_dim
embedding_dim == 10
\* self.conv_downsample
conv_downsample == FALSE
\* Decoder.output_dim
output_dim == 3

num_blocks == Len(channel_multipliers)

\* conv_fn(filters, kernel_size=(4, 4), strides=(2, 2))(x): padding SAME
conv_strided(nfeatures, shape) ==
    <<shape[1], (shape[2] + 1) \div 2, (shape[3] + 1) \div 2, nfeatures>>

\* the shape of ResBlock(filters, **block_args)(x), use_conv_shortcut=False
ResShape(nfilters, shape) == ResBlock(nfilters, FALSE, Input(shape)).shape

Logged(op, stage, shape) == [op |-> op, stage |-> stage, h |-> shape[2], w |-> shape[3]]

\* faulty variant: the last stage is downsampled too
EncResizes_EveryStage(i) == i < num_blocks

\* if i < num_blocks - 1
EncResizes(i) == i < num_blocks - 1

\* if i > 0
DecResizes(i) == i > 0

\* the quantizer's output has the shape of its input
QuantizedShape(shape) == shape

NetInit ==
    /\ net_pc = "enc_conv_in"
    /\ net_i = 0
    /\ net_j = 0
    /\ net_filters = 0
    /\ net_image \in {<<b, 16 * h, 16 * w, 3>> :
                        b \in 1 .. MaxBatch, h \in 1 .. MaxTiles, w \in 1 .. MaxTiles}
    /\ net_shape = net_image
    /\ net_log = <<>>

\* x = conv_fn(self.filters, kernel_size=(3, 3), use_bias=False)(x)
EncConvIn ==
    /\ net_pc = "enc_conv_in"
    /\ net_shape' = conv_fn(filters, 3, Input(net_shape)).shape
    /\ net_i' = 0
    /\ net_pc' = "enc_loop"
    /\ UNCHANGED <<net_j, net_filters, net_image, net_log>>
    /\ UNCHANGED <<vq_vars, rb_vars>>

\* for i in range(num_blocks): filters = self.filters * self.channel_multipliers[i]
EncStageBegin ==
    /\ net_pc = "enc_loop"
    /\ IF net_i < num_blocks
       THEN /\ net_filters' = filters * channel_multipliers[net_i + 1]
            /\ net_pc' = "enc_res"
       ELSE /\ net_filters' = net_filters
            /\ net_pc' = "enc_final_res"
    /\ net_j' = 0
    /\ UNCHANGED <<net_i, net_image, net_shape, net_log>>
    /\ UNCHANGED <<vq_vars, rb_vars>>

\* for _ in range(self.num_res_blocks): x = ResBlock(filters, **block_args)(x)
EncResBlock ==
    /\ net_pc = "enc_res"
    /\ net_j < num_res_blocks
    /\ net_shape' = ResShape(net_filters, net_shape)
    /\ net_j' = net_j + 1
    /\ UNCHANGED <<net_pc, net_i, net_filters, net_image, net_log>>
    /\ UNCHANGED <<vq_vars, rb_vars>>

\* if i < num_blocks - 1: downsample x
EncStageEnd ==
    /\ net_pc = "enc_res"
    /\ net_j = num_res_blocks
    /\ IF EncResizes(net_i)
       THEN /\ net_shape' = IF conv_downsample THEN conv_strided(net_filters, net_shape)
                                               ELSE dsample(net_shape)
            /\ net_log' = Append(net_log, Logged("down", net_i, net_shape'))
       ELSE UNCHANGED <<net_shape, net_log>>
    /\ net_i' = net_i + 1
    /\ net_pc' = "enc_loop"
    /\ UNCHANGED <<net_j, net_filters, net_image>>
    /\ UNCHANGED <<vq_vars, rb_vars>>

\* the residual blocks after the loop
EncFinalRes ==
    /\ net_pc = "enc_final_res"
    /\ net_j < num_res_blocks
    /\ net_shape' = ResShape(net_filters, net_shape)
    /\ net_j' = net_j + 1
    /\ UNCHANGED <<net_pc, net_i, net_filters, net_image, net_log>>
    /\ UNCHANGED <<vq_vars, rb_vars>>

\* norm, activation, conv_fn(self.embedding_dim, kernel_size=(1, 1)); return x
EncHead ==
    /\ net_pc = "enc_final_res"
    /\ net_j = num_res_blocks
    /\ net_shape' = conv_fn(embedding_dim, 1, activation_fn(norm_fn(Input(net_shape)))).shape
    /\ net_pc' = "enc_done"
    /\ UNCHANGED <<net_i, net_j, net_filters, net_image, net_log>>
    /\ UNCHANGED <<vq_vars, rb_vars>>

\* quantized, result_dict = self.quantizer(encoded_feature)
QuantizerStep ==
    /\ net_pc = "enc_done"
    /\ net_shape' = QuantizedShape(net_shape)
    /\ net_pc' = "dec_conv_in"
    /\ UNCHANGED <<net_i, net_j, net_filters, net_image, net_log>>
    /\ UNCHANGED <<vq_vars, rb_vars>>

\* filters = self.filters * self.channel_multipliers[-1]; x = conv_fn(filters, (3, 3))(x)
DecConvIn ==
    /\ net_pc = "dec_conv_in"
    /\ net_filters' = filters * channel_multipliers[num_blocks]
    /\ net_shape' = conv_fn(net_filters', 3, Input(net_shape)).shape
    /\ net_j' = 0
    /\ net_pc' = "dec_pre_res"
    /\ UNCHANGED <<net_i, net_image, net_log>>
    /\ UNCHANGED <<vq_vars, rb_vars>>

\* the residual blocks before the loop
DecPreRes ==
    /\ net_pc = "dec_pre_res"
    /\ net_shape' = ResShape(net_filters, net_shape)
    /\ net_j' = net_j + 1
    /\ IF net_j' < num_res_blocks
       THEN UNCHANGED <<net_pc, net_i>>
       ELSE net_pc' = "dec_loop" /\ net_i' = num_blocks - 1
    /\ UNCHANGED <<net_filters, net_image, net_log>>
    /\ UNCHANGED <<vq_vars, rb_vars>>

\* for i in reversed(range(num_blocks)): filters = self.filters * ...[i]
DecStageBegin ==
    /\ net_pc = "dec_loop"
    /\ IF net_i >= 0
       THEN /\ net_filters' = filters * channel_multipliers[net_i + 1]
            /\ net_pc' = "dec_res"
       ELSE /\ net_filters' = net_filters
            /\ net_pc' = "dec_head"
    /\ net_j' = 0
    /\ UNCHANGED <<net_i, net_image, net_shape, net_log>>
    /\ UNCHANGED <<vq_vars, rb_vars>>

\* for _ in range(self.num_res_blocks): x = ResBlock(filters, **block_args)(x)
DecResBlock ==
    /\ net_pc = "dec_res"
    /\ net_j < num_res_blocks
    /\ net_shape' = ResShape(net_filters, net_shape)
    /\ net_j' = net_j + 1
    /\ UNCHANGED <<net_pc, net_i, net_filters, net_image, net_log>>
    /\ UNCHANGED <<vq_vars, rb_vars>>

\* if i > 0: x = layers.upsample(x, 2); x = conv_fn(filters, kernel_size=(3, 3))(x)
DecStageEnd ==
    /\ net_pc = "dec_res"
    /\ net_j = num_res_blocks
    /\ IF DecResizes(net_i)
       THEN /\ net_shape' = conv_fn(net_filters, 3, Input(upsample(net_shape, 2))).shape
            /\ net_log' = Append(net_log, Logged("up", net_i, net_shape'))
       ELSE UNCHANGED <<net_shape, net_log>>
    /\ net_i' = net_i - 1
    /\ net_pc' = "dec_loop"
    /\ UNCHANGED <<net_j, net_filters, net_image>>
    /\ UNCHANGED <<vq_vars, rb_vars>>

\* norm, activation, conv_fn(self.output_dim, kernel_size=(3, 3)), sigmoid; return x
DecHead ==
    /\ net_pc = "dec_head"
    /\ net_shape' = activation_fn(conv_fn(output_dim, 3,
                        activation_fn(norm_fn(Input(net_shape))))).shape
    /\ net_pc' = "done"
    /\ UNCHANGED <<net_i, net_j, net_filters, net_image, net_log>>
    /\ UNCHANGED <<vq_vars, rb_vars>>

NetNext ==
    \/ EncConvIn \/ EncStageBegin \/ EncResBlock \/ EncStageEnd \/ EncFinalRes
    \/ EncHead \/ QuantizerStep
    \/ DecConvIn \/ DecPreRes \/ DecStageBegin \/ DecResBlock \/ DecStageEnd
    \/ DecHead

\* no tower is running
NetIdle ==
    /\ net_pc = "idle"
    /\ net_i = 0
    /\ net_j = 0
    /\ net_filters = 0
    /\ net_image = <<0, 0, 0, 0>>
    /\ net_shape = <<0, 0, 0, 0>>
    /\ net_log = <<>>

VQInit == VQStart /\ RBIdle /\ NetIdle
SpecVQ == VQInit /\ [][VQNext]_vars

ResInit == RBInit /\ VQIdle /\ NetIdle
SpecRes == ResInit /\ [][RBNext]_vars

TowerInit == NetInit /\ VQIdle /\ RBIdle
SpecTower == TowerInit /\ [][NetNext]_vars

-----------------------------------------------------------------------------
(* Properties of the quantizer, checked under SpecVQ *)

Called == vq_pc \in {"called", "indexed", "decoded"} /\ ret # NoReturn
RD == ret.result_dict
LossKeys == {"quantizer_loss", "e_latent_loss", "q_latent_loss", "entropy_loss"}
EntryKeys == {"encodings", "encoding_indices", "raw"}
\* quantize(one_hot(argmin distances)): the quantized grid before any rewrite
Nearest == quantize(RD.encodings, codebook, dtype)

RECURSIVE SumRow(_, _)
SumRow(row, k) == IF k < 0 THEN 0 ELSE SumRow(row, k - 1) + row[k]

\* C1: after every forward call, every encoding index lies in
\* [0, codebook_size) and encoding_indices has the shape of the input grid
\* without its channel axis.
C1_IndexRange ==
    Called =>
        /\ "encoding_indices" \in DOMAIN RD
        /\ RD.encoding_indices.shape = Lead(RD.raw.shape)
        /\ DOMAIN RD.encoding_indices.data = 1 .. Prod(Lead(RD.raw.shape))
        /\ \A p \in DOMAIN RD.encoding_indices.data :
              RD.encoding_indices.data[p] \in 0 .. codebook_size - 1

\* a forward call selected the last code of the codebook
C1_Witness ==
    /\ Called
    /\ \E p \in DOMAIN RD.encoding_indices.data :
          RD.encoding_indices.data[p] = codebook_size - 1

\* C9: at every position the encodings vector is 1 exactly at the position's
\* encoding index and 0 at every other code, so it sums to 1 along the code axis.
C9_OneHot ==
    Called =>
        /\ RD.encodings.shape = RD.encoding_indices.shape \o <<codebook_size>>
        /\ DOMAIN RD.encodings.data = DOMAIN RD.encoding_indices.data
        /\ \A p \in DOMAIN RD.encodings.data :
              /\ \A k \in Codes :
                    RD.encodings.data[p][k] =
                        (IF k = RD.encoding_indices.data[p] THEN 1 ELSE 0)
              /\ SumRow(RD.encodings.data[p], codebook_size - 1) = 1

\* a forward call whose one-hot vector has its 1 at the last code
C9_Witness ==
    /\ Called
    /\ \E p \in DOMAIN RD.encodings.data :
          /\ RD.encoding_indices.data[p] = codebook_size - 1
          /\ RD.encodings.data[p][codebook_size - 1] = 1

\* C10: the selected index holds a codebook entry at minimum squared
\* Euclidean distance from the feature vector, the lowest such index on a
\* tie, and the quantized vector at the position is that entry.
C10_Nearest ==
    Called =>
        LET c == CastCodebook(codebook, dtype)
            x == RD.raw
        IN  \A p \in DOMAIN x.data :
               LET i == RD.encoding_indices.data[p]
                   dist(k) == squared_euclidean_distance(x.data[p], c[k])
               IN  /\ \A k \in Codes : dist(i) <= dist(k)
                   /\ \A k \in Codes : k < i => dist(k) > dist(i)
                   /\ Nearest.data[p] = c[i]
                   /\ ~train => ret.quantized.data[p] = c[i]

\* two distinct codes tie for the minimum at some position
C10_Witness ==
    /\ Called
    /\ LET c == CastCodebook(codebook, dtype)
           x == RD.raw
       IN  \E p \in DOMAIN x.data : \E k \in Codes :
              /\ k # RD.encoding_indices.data[p]
              /\ squared_euclidean_distance(x.data[p], c[k]) =
                 squared_euclidean_distance(x.data[p], c[RD.encoding_indices.data[p]])

\* C4 as stated: in training mode the returned tensor
\* raw + stop_gradient(quantized - raw) has exactly the value of
\* quantize(one_hot(argmin distances)).
C4_ExactAlways ==
    (Called /\ train) => ret.quantized = Nearest

\* C4 (amended): in training mode the returned tensor has the shape of the
\* quantized grid, and equals it at every element where the difference
\* quantized - raw is exactly representable in the dtype; in inference mode
\* the returned tensor is the quantized grid itself.
C4_ExactWhenRepresentable ==
    Called =>
        /\ ret.quantized.shape = Nearest.shape
        /\ DOMAIN ret.quantized.data = DOMAIN Nearest.data
        /\ ~train => ret.quantized = Nearest
        /\ train =>
              \A p \in DOMAIN Nearest.data : \A d \in Chans :
                 Representable(Nearest.data[p][d] - RD.raw.data[p][d], dtype)
                    => ret.quantized.data[p][d] = Nearest.data[p][d]

\* a training-mode call where quantized differs from raw by a representable amount
C4_Witness ==
    /\ Called /\ train
    /\ \E p \in DOMAIN Nearest.data : \E d \in Chans :
          /\ Nearest.data[p][d] # RD.raw.data[p][d]
          /\ Representable(Nearest.data[p][d] - RD.raw.data[p][d], dtype)

\* C5 as stated: the result record of every forward pass includes the
\* quantized output, the one-hot encodings, the encoding indices and the raw
\* features.
C5_RecordHoldsQuantized ==
    Called =>
        /\ EntryKeys \subseteq DOMAIN RD
        /\ DOMAIN RD \ (EntryKeys \cup LossKeys) # {}

\* C5 (amended): the result record of every forward pass includes the one-hot
\* encodings, the encoding indices and the raw features and, beside the
\* training losses, nothing else; the quantized output is returned next to
\* the record, with the shape of the raw features.
C5_RecordEntries ==
    Called =>
        /\ EntryKeys \subseteq DOMAIN RD
        /\ DOMAIN RD \subseteq EntryKeys \cup LossKeys
        /\ RD.encodings.shape = Lead(RD.raw.shape) \o <<codebook_size>>
        /\ RD.encoding_indices.shape = Lead(RD.raw.shape)
        /\ ret.quantized.shape = RD.raw.shape

\* an inference-mode forward call has returned
C5_Witness ==
    Called /\ ~train /\ DOMAIN RD = EntryKeys

\* C6: the result record holds the four loss components if and only if the
\* quantizer is in training mode; in inference mode it holds none of them.
C6_LossesIffTrain ==
    Called =>
        /\ train => LossKeys \subseteq DOMAIN RD
        /\ ~train => LossKeys \cap DOMAIN RD = {}

\* a training-mode call returned its losses
C6_Witness ==
    Called /\ train /\ LossKeys \subseteq DOMAIN RD

\* C7: in training mode the commitment loss and the codebook loss are >= 0
\* and the total quantizer loss is commitment + codebook + entropy loss.
C7_Losses ==
    (Called /\ train) =>
        /\ RD.e_latent_loss >= 0
        /\ RD.q_latent_loss >= 0
        /\ RD.quantizer_loss = RD.e_latent_loss + RD.q_latent_loss + RD.entropy_loss

\* a training-mode call with a positive commitment loss and a negative entropy term
C7_Witness ==
    /\ Called /\ train
    /\ RD.e_latent_loss > 0
    /\ RD.entropy_loss < 0

\* C2: decode_ids(ids) equals quantize(one_hot(ids)) for every in-range index
\* array, so decode_from_indices decodes the one-hot-matmul lookup of its
\* indices, which for the indices of encode_to_indices(x) is the quantized
\* grid of the forward call on x.
C2_RoundTrip ==
    vq_pc = "decoded" =>
        /\ features = quantize(Encodings(ids, dtype), codebook, dtype)
        /\ reconstructed = decode(quantize(Encodings(ids, dtype), codebook, dtype))
        /\ Called => (ids = RD.encoding_indices /\ features = ret.quantized)

-----------------------------------------------------------------------------
(* Properties of the residual block, checked under SpecRes *)

\* the operations from a node down its first operands
RECURSIVE Spine(_)
Spine(e) == IF e.args = <<>> THEN <<e.op>> ELSE <<e.op>> \o Spine(e.args[1])

\* C8: with input_dim = filters the output is the transformed branch plus the
\* unchanged input and no projection is applied; otherwise the shortcut added
\* is a projection (3x3 if use_conv_shortcut, else 1x1) of the branch output,
\* not of the input; the output has `filters` channels in both cases.
C8_Shortcut ==
    rb_pc = "done" =>
        LET e == rb_out.expr
            branch == e.args[1]
            shortcut == e.args[2]
        IN  /\ e.op = "add" /\ Len(e.args) = 2
            /\ rb_out.shape = <<rb_x.shape[1], rb_x.shape[2], rb_x.shape[3], rb_filters>>
            /\ Spine(branch) = <<"conv", "act", "norm", "conv", "act", "norm", "input">>
            /\ branch.k = 3 /\ branch.f = rb_filters
            /\ rb_x.shape[4] = rb_filters => shortcut = rb_x.expr
            /\ rb_x.shape[4] # rb_filters =>
                  /\ shortcut.op = "conv"
                  /\ shortcut.k = (IF rb_shortcut THEN 3 ELSE 1)
                  /\ shortcut.f = rb_filters
                  /\ shortcut.args = <<branch>>
                  /\ shortcut.args[1] # rb_x.expr

\* a block that changes the channel count, with use_conv_shortcut set
C8_Witness ==
    /\ rb_pc = "done"
    /\ rb_x.shape[4] # rb_filters
    /\ rb_shortcut
    /\ rb_out.expr.args[2].k = 3

-----------------------------------------------------------------------------
(* Properties of the towers, checked under SpecTower *)

Resizes(op) == SelectSeq(net_log, LAMBDA r : r.op = op)

\* C3: for an image (B,H,W,3) with H and W divisible by 16 the encoder halves
\* the grid exactly 4 times, after each stage but the last, and returns
\* (B,H/16,W/16,embedding_dim); the decoder doubles it exactly 4 times, after
\* each reversed stage but the narrowest, and returns (B,H,W,3).
C3_Shapes ==
    /\ net_pc = "enc_done" =>
          /\ net_shape = <<net_image[1], net_image[2] \div 16, net_image[3] \div 16,
                           embedding_dim>>
          /\ Len(net_log) = 4
          /\ \A n \in 1 .. 4 :
                /\ net_log[n].op = "down"
                /\ net_log[n].stage = n - 1
                /\ net_log[n].h * Pow2(n) = net_image[2]
                /\ net_log[n].w * Pow2(n) = net_image[3]
    /\ net_pc = "done" =>
          /\ net_shape = <<net_image[1], net_image[2], net_image[3], 3>>
          /\ Len(Resizes("down")) = 4
          /\ Len(Resizes("up")) = 4
          /\ \A n \in 1 .. 4 :
                /\ Resizes("up")[n].stage = num_blocks - n
                /\ Resizes("up")[n].h * Pow2(4 - n) = net_image[2]
                /\ Resizes("up")[n].w * Pow2(4 - n) = net_image[3]

\* the decoder returned for an image that is not square
C3_Witness ==
    /\ net_pc = "done"
    /\ net_image[2] # net_image[3]
    /\ net_image[1] > 1

====
